---- MODULE Spec2Model ----
(***************************************************************************)
(* A model of types-publisher's publish-registry script (the generation,   *)
(* validation and publication of the "types-registry" package) and of the  *)
(* tag filter it uses to build the registry snapshot.                      *)
(*                                                                         *)
(* JavaScript objects are modelled as sequences of <<key, value>> pairs    *)
(* with distinct keys, in insertion order: this is the order for-in and    *)
(* JSON.stringify enumerate them in.  An optional value is <<>> (absent,   *)
(* undefined) or <<x>> (present).                                          *)
(***************************************************************************)
EXTENDS Integers, Sequences, FiniteSets, TLC

VARIABLES
    npm,        \* the registry's record of types-registry: versions, dist-tags
    pc,         \* the position of the current run of main
    run,        \* the locals of the current run of main
    outDir,     \* the files under registryOutputPath
    valDir,     \* the files under validateTypesRegistryPath
    calls,      \* the side effects the current run has issued, in order
    outcome,    \* how the current run ended: "none", "returned", "threw:..."
    tagsIn,     \* filterTags: the argument
    tagsOut,    \* filterTags: the result, once returned
    tpc,        \* filterTags: "call" before, "return" after
    gen,        \* generateRegistry on its own: its arguments, fetches, entries
    dep         \* addInferredDependencies on its own: its arguments and result

vars == <<npm, pc, run, outDir, valDir, calls, outcome, tagsIn, tagsOut, tpc, gen, dep>>

-----------------------------------------------------------------------------
(* Bounds of the model.                                                    *)

\* The highest patch number a run may start from.
MaxPatch == 1
\* The largest number of dist-tags of a tag mapping given to filterTags.
MaxTags == 3
\* The largest options.fetchParallelism given to generateRegistry.
MaxParallel == 2
\* The largest number of module dependencies, and of library dependencies, of a typing.
MaxDeps == 2

-----------------------------------------------------------------------------
(* Objects as ordered sequences of pairs.                                  *)

None == <<>>
Some(x) == <<x>>

Range(s) == {s[i] : i \in 1..Len(s)}
Keys(obj) == {obj[i][1] : i \in 1..Len(obj)}
HasKey(obj, k) == \E i \in 1..Len(obj) : obj[i][1] = k
\* obj[k], for a key the object has
Get(obj, k) == obj[CHOOSE i \in 1..Len(obj) : obj[i][1] = k][2]
\* obj[k] as an optional value: undefined for a key the object lacks
Lookup(obj, k) == IF HasKey(obj, k) THEN Some(Get(obj, k)) ELSE None
\* the names every object inherits from Object.prototype
ObjectPrototypeNames ==
    {"constructor", "hasOwnProperty", "isPrototypeOf", "propertyIsEnumerable",
     "toLocaleString", "toString", "valueOf", "__proto__", "__defineGetter__",
     "__defineSetter__", "__lookupGetter__", "__lookupSetter__"}
\* k in obj: the object's own keys and the inherited ones
In(k, obj) == HasKey(obj, k) \/ k \in ObjectPrototypeNames

\* the keys that are array indices (canonical numeric strings), by value
arrayIndexKeys == <<"0", "1", "2", "3", "4", "5", "6", "7", "8", "9", "10">>
\* the value of an array index key, -1 for any other key
arrayIndex(k) ==
    IF \E i \in 1..Len(arrayIndexKeys) : arrayIndexKeys[i] = k
    THEN (CHOOSE i \in 1..Len(arrayIndexKeys) : arrayIndexKeys[i] = k) - 1
    ELSE -1
\* an object enumerates its array index keys first, by ascending value, and
\* then its other keys in the order of their insertion
IsOrdered(obj) ==
    \A i, j \in 1..Len(obj) : i < j =>
        \/ arrayIndex(obj[j][1]) = -1
        \/ /\ arrayIndex(obj[i][1]) # -1
           /\ arrayIndex(obj[i][1]) < arrayIndex(obj[j][1])

\* obj[k] = v for a key that is no array index: a new key is appended, an
\* old key keeps its place
Assign(obj, k, v) ==
    IF HasKey(obj, k)
    THEN [i \in 1..Len(obj) |-> IF obj[i][1] = k THEN <<k, v>> ELSE obj[i]]
    ELSE Append(obj, <<k, v>>)
\* obj[k] = v: a new array index key goes after the lower array index keys
\* and before every other key
Put(obj, k, v) ==
    IF HasKey(obj, k) \/ arrayIndex(k) = -1
    THEN Assign(obj, k, v)
    ELSE LET lower == {i \in 1..Len(obj) :
                          arrayIndex(obj[i][1]) # -1 /\ arrayIndex(obj[i][1]) < arrayIndex(k)}
             p == Cardinality(lower)
         IN  SubSeq(obj, 1, p) \o << <<k, v>> >> \o SubSeq(obj, p + 1, Len(obj))

IsObject(obj) == \A i, j \in 1..Len(obj) : obj[i][1] = obj[j][1] => i = j

\* the sequences over S of length at most n
SeqUpTo(S, n) == UNION {[1..k -> S] : k \in 0..n}

-----------------------------------------------------------------------------
(* filterTags                                                              *)

TagNames == {"latest", "next", "beta", "ts2.0"}
TagVersions == {"1.0.0", "2.0.0"}
\* the tag mappings the registry can answer with
AllTags == {t \in SeqUpTo(TagNames \X TagVersions, MaxTags) : IsObject(t) /\ IsOrdered(t)}

latestTag == "latest"

\* filterTags with the test on the tag name dropped: latest is kept only by accident
filterTagsNoLatestTest(tags) ==
    LET latestVersion == Lookup(tags, latestTag)
    IN  SelectSeq(tags, LAMBDA e : Some(e[2]) # latestVersion)

\* filterTags comparing against a missing latest as if it matched everything
filterTagsUndefinedMatches(tags) ==
    LET latestVersion == Lookup(tags, latestTag)
    IN  SelectSeq(tags, LAMBDA e :
            e[1] = latestTag \/ (latestVersion # None /\ Some(e[2]) # latestVersion))

\* out holds, in the order of tags, the entry of latest and every entry whose
\* version is not latest's; tags[latestTag] is undefined when there is no latest
filterTags(tags) ==
    LET latestVersion == Lookup(tags, latestTag)
    IN  SelectSeq(tags, LAMBDA e : e[1] = latestTag \/ Some(e[2]) # latestVersion)

-----------------------------------------------------------------------------
(* The registry snapshot and its serialization                             *)

\* the names of the typings packages
Names == {"jquery", "node"}
\* AllPackages.readTypings(): the typings, in the order they are read
AllTypings == {<<"jquery">>, <<"jquery", "node">>}
\* what fetchNpmInfo answers for a package: its dist-tags, if it has any
FetchedTags == {None, Some(<<<<"latest", "1.0.0">>, <<"ts2.0", "1.0.0">>>>)}
\* the answers of the registry that the runs of main meet
AllInfos == {info \in [Names -> FetchedTags] : info["jquery"] # None}
\* readNotNeededPackages(): the names of the not-needed packages
AllNotNeeded == SUBSET Names

Perms(n) == {f \in [1..n -> 1..n] : \A i, j \in 1..n : f[i] = f[j] => i = j}

\* the callback recording a package whatever its fetch answered
recordTagsAlways(entries, name, tags) ==
    Put(entries, name, IF tags # None THEN filterTags(tags[1]) ELSE <<>>)

\* the callback of nAtATime once fetchNpmInfo has answered for a typing:
\* if (tags) entries[typing.name] = filterTags(tags)
recordTags(entries, name, tags) ==
    IF tags # None THEN Put(entries, name, filterTags(tags[1])) ELSE entries

\* the entries after the fetches of typings[order[1]], .., typings[order[k]]
\* have completed, in that order
RECURSIVE generateRegistryEntries(_, _, _, _)
generateRegistryEntries(typings, info, order, k) ==
    IF k = 0 THEN <<>>
    ELSE LET entries == generateRegistryEntries(typings, info, order, k - 1)
             name == typings[order[k]]
         IN  recordTags(entries, name, info[name])

generateRegistry(typings, info, order) ==
    [entries |-> generateRegistryEntries(typings, info, order, Len(typings))]

\* JSON.stringify of a Registry: the text lists the entries in insertion order
JSONstringify(registry) == <<"{\"entries\":", registry.entries, "}">>
\* readJson of such a text
readJson(text) == [entries |-> text[2]]
\* computeHash: a digest of the text, taken to be free of collisions
computeHash(text) == <<"sha256", text>>

-----------------------------------------------------------------------------
(* Versions                                                                *)

Semver(ma, mi, pa) == [major |-> ma, minor |-> mi, patch |-> pa]
\* Semver.versionString: "major.minor.patch", as its dot-separated components
versionString(v) == <<v.major, v.minor, v.patch>>
\* Semver.parse
parseSemver(s) == Semver(s[1], s[2], s[3])
\* Semver.equals
semverEquals(a, b) == a.major = b.major /\ a.minor = b.minor /\ a.patch = b.patch
\* Semver.greaterThan
semverGreater(a, b) ==
    \/ a.major > b.major
    \/ a.major = b.major /\ a.minor > b.minor
    \/ a.major = b.major /\ a.minor = b.minor /\ a.patch > b.patch
\* getLatestVersion: the highest version among the uploaded ones
highestVersion(versions) ==
    parseSemver(CHOOSE s \in DOMAIN versions :
        \A t \in DOMAIN versions : ~semverGreater(parseSemver(t), parseSemver(s)))

-----------------------------------------------------------------------------
(* Files and directories                                                   *)

packageName == "types-registry"
readme == "This package contains a listing of all packages published to the @types scope on NPM."
\* the README of an artifact that this script did not generate
otherReadme == "types-registry"

EmptyDir == [f \in {} |-> ""]
WriteTo(dir, filename, content) ==
    [f \in DOMAIN dir \cup {filename} |-> IF f = filename THEN content ELSE dir[f]]

\* assertDirectoriesEqual does not throw: outside the ignored files, both
\* directories hold the same files with the same contents
directoriesEqual(expected, actual, ignored) ==
    /\ DOMAIN expected \ ignored = DOMAIN actual \ ignored
    /\ \A f \in DOMAIN expected \ ignored : expected[f] = actual[f]

generatePackageJson(version, typesPublisherContentHash) ==
    [name |-> packageName, version |-> version,
     typesPublisherContentHash |-> typesPublisherContentHash]

-----------------------------------------------------------------------------
(* The staleness guard                                                     *)

millisecondsPerDay == 1000 * 60 * 60 * 24
\* Date.now() of the runs, in milliseconds
Now == 10 * millisecondsPerDay
\* the ages of the published state that runs meet
Ages == {3 * millisecondsPerDay, 7 * millisecondsPerDay - 1,
         7 * millisecondsPerDay, 7 * millisecondsPerDay + 1}
\* time.modified of the registry's record, as Date.getTime()
Times == {Now - a : a \in Ages}

\* the guard with the comparison turned around
isAWeekAfterInverted(time) == Now - time < 7 * millisecondsPerDay

\* days = diff / millisecondsPerDay > 7, without the division
isAWeekAfter(time) ==
    LET diff == Now - time
    IN  diff > 7 * millisecondsPerDay

-----------------------------------------------------------------------------
(* The steps of main and of the functions it awaits                        *)

\* installForValidate(): empty the directory, write its package.json, npm install
installSteps == <<"emptyValidateDir", "writeValidateJson", "install">>
\* validate(): install types-registry@next, then compare the directories
validateSteps == installSteps \o <<"assertEqual">>
\* validateIsSubset(): install, compare all but index.json, read the installed
\* index, read the generated index and compare the keys
validateIsSubsetSteps == installSteps \o <<"assertOthersEqual", "readActual", "assertSubset">>
\* generate(): empty the output directory, write the three files
generateSteps == <<"emptyDir", "writePackageJson", "writeIndexJson", "writeReadme">>

\* publish() tagging before it validates
publishStepsTagFirst == <<"publish", "sleep", "tagNew">> \o validateSteps

\* publish(): upload, sleep, validate, tag the new version latest
publishSteps == <<"publish", "sleep">> \o validateSteps \o <<"tagNew">>

\* the PROMOTE branch tagging without validating
promoteStepsNoValidate == <<"readNotNeeded", "tagHighest">>

\* the PROMOTE branch: validateIsSubset(await readNotNeededPackages), tag
promoteSteps == <<"readNotNeeded">> \o validateIsSubsetSteps \o <<"tagHighest">>

\* the NOOP branch publishing after all
noopStepsPublish == publishSteps

\* the NOOP branch: validate
noopSteps == validateSteps

\* the branch decision without the test for a version never tagged latest
chooseBranchNoPromote(highestSemverVersion, oldVersion, oldContentHash, newContentHash) ==
    IF oldContentHash # newContentHash THEN "PUBLISH" ELSE "NOOP"

\* the branch decision testing for unchanged content first
chooseBranchNoopFirst(highestSemverVersion, oldVersion, oldContentHash, newContentHash) ==
    IF oldContentHash = newContentHash THEN "NOOP"
    ELSE IF ~semverEquals(highestSemverVersion, oldVersion) THEN "PROMOTE"
    ELSE "PUBLISH"

\* the branch decision testing the hashes first
chooseBranchHashFirst(highestSemverVersion, oldVersion, oldContentHash, newContentHash) ==
    IF oldContentHash # newContentHash THEN "PUBLISH"
    ELSE IF ~semverEquals(highestSemverVersion, oldVersion) THEN "PROMOTE"
    ELSE "NOOP"

\* the if / else if / else of main
chooseBranch(highestSemverVersion, oldVersion, oldContentHash, newContentHash) ==
    IF ~semverEquals(highestSemverVersion, oldVersion) THEN "PROMOTE"
    ELSE IF oldContentHash # newContentHash THEN "PUBLISH"
    ELSE "NOOP"

\* what each branch logs first
branchMessage(branch) ==
    CASE branch = "PROMOTE" -> "Old version of types-registry was never tagged latest, so updating"
      [] branch = "PUBLISH" -> "New packages have been added, so publishing a new registry."
      [] OTHER -> "No new packages published, so no need to publish new registry."

branchSteps(branch) ==
    CASE branch = "PROMOTE" -> promoteSteps
      [] branch = "PUBLISH" -> publishSteps
      [] OTHER -> noopSteps

\* main taking its branch before it generates the output
mainStepsBranchFirst ==
    <<"guard", "createClient", "readTypings", "generateRegistry", "assert", "branch">>
        \o generateSteps \o <<"writeLog">>

\* main, after fetchAndProcessNpmInfo has answered
mainSteps ==
    <<"guard", "createClient", "readTypings", "generateRegistry", "assert">>
        \o generateSteps \o <<"branch", "writeLog">>

\* the precondition accepting any minor version
versionPreconditionMajorOnly(oldVersion) == oldVersion.major = 0

\* assert.equal(oldVersion.major, 0); assert.equal(oldVersion.minor, 1)
versionPrecondition(oldVersion) == oldVersion.major = 0 /\ oldVersion.minor = 1

\* the new version keeping the old patch number
newVersionOfSamePatch(oldVersion) == <<0, 1, oldVersion.patch>>

\* `0.1.${oldVersion.patch + 1}`
newVersionOf(oldVersion) == <<0, 1, oldVersion.patch + 1>>

\* the key check letting a key pass only if it is expected and not needed
unexpectedKeysBoth(actual, expected, notNeeded) ==
    SelectSeq(actual.entries,
              LAMBDA e : ~(In(e[1], expected.entries) /\ e[1] \in notNeeded))

\* the keys of the installed index, in order, that make validateIsSubset throw:
\* !(key in expected.entries) && !notNeeded.some(p => p.name === key)
unexpectedKeys(actual, expected, notNeeded) ==
    SelectSeq(actual.entries,
              LAMBDA e : ~In(e[1], expected.entries) /\ ~(e[1] \in notNeeded))

Call(op, arg) == [op |-> op, arg |-> arg]
Returned == [kind |-> "returned", error |-> <<>>]
Threw(error) == [kind |-> "threw", error |-> error]
Running == [kind |-> "none", error |-> <<>>]

-----------------------------------------------------------------------------
(* The registry before the first run                                       *)

InitVersions == {<<0, 1, 0>>, <<0, 2, 0>>, <<1, 1, 0>>}
\* the index.json that generate writes for typings that all have dist-tags
InitRegistry(typings) ==
    JSONstringify(generateRegistry(typings,
        [n \in Range(typings) |-> Some(<<<<"latest", "1.0.0">>, <<"ts2.0", "1.0.0">>>>)],
        [i \in 1..Len(typings) |-> i]))
InitRegistries == {InitRegistry(<<"jquery">>), InitRegistry(<<"jquery", "node">>)}
InitReadmes == {readme, otherReadme}
\* typesPublisherContentHash of the published manifest: the hash of its index,
\* or none in a manifest written before the field was recorded
InitHashes(index) == {computeHash(index), <<>>}

\* the files of an artifact
Artifact(packageJson, index, readmeText) ==
    WriteTo(WriteTo(WriteTo(EmptyDir, "package.json", packageJson),
                    "index.json", index), "README.md", readmeText)

NoRun ==
    [dry |-> FALSE, lastModified |-> 0,
     oldVersion |-> Semver(0, 0, 0), highestSemverVersion |-> Semver(0, 0, 0),
     oldContentHash |-> <<>>, registry |-> <<>>, newContentHash |-> <<>>,
     newVersion |-> <<>>, packageJson |-> generatePackageJson(<<>>, <<>>),
     typings |-> <<>>, pending |-> {}, entries |-> <<>>, actual |-> <<>>,
     notNeeded |-> {}, npm0 |-> npm]

\* the published artifacts the first run can meet: one artifact of this
\* script, varied in its version, its index, its README or its hash
InitPublished ==
    LET index == InitRegistry(<<"jquery">>)
    IN  {<<v, index, readme, computeHash(index)>> : v \in InitVersions}
        \cup {<<<<0, 1, 0>>, i, readme, computeHash(i)>> : i \in InitRegistries}
        \cup {<<<<0, 1, 0>>, index, r, computeHash(index)>> : r \in InitReadmes}
        \cup {<<<<0, 1, 0>>, index, readme, h>> : h \in InitHashes(index)}
\* the registry the first run can meet: one version, tagged latest and next
InitTagged ==
    {[versions |-> (p[1] :> Artifact(generatePackageJson(p[1], p[4]), p[2], p[3])),
      latest |-> p[1], next |-> p[1]] : p \in InitPublished}
\* or the registry an earlier run left when it ended between its upload and
\* its tag, the typings then having had a package that is no longer there
InitUnpromoted ==
    LET index == InitRegistry(<<"jquery">>)
        newer == InitRegistry(<<"jquery", "constructor">>)
    IN  {[versions |->
            (<<0, 1, 0>> :> Artifact(generatePackageJson(<<0, 1, 0>>, computeHash(index)),
                                     index, readme))
            @@ (<<0, 1, 1>> :> Artifact(generatePackageJson(<<0, 1, 1>>, computeHash(newer)),
                                        newer, readme)),
          latest |-> <<0, 1, 0>>, next |-> <<0, 1, 1>>]}

InitMain ==
    /\ npm \in InitTagged \cup InitUnpromoted
    /\ pc = <<>>
    /\ run = [NoRun EXCEPT !.npm0 = npm]
    /\ outDir = EmptyDir
    /\ valDir = EmptyDir
    /\ calls = <<>>
    /\ outcome = Running

InitTags ==
    /\ tagsIn = <<>>
    /\ tagsOut = None
    /\ tpc = "off"

\* generateRegistry is not running on its own
GenOff ==
    gen = [pc |-> "off", typings |-> <<>>, info |-> <<>>, parallel |-> 1,
           next |-> 1, inflight |-> {}, entries |-> <<>>]

\* addInferredDependencies is not running on its own
DepOff ==
    dep = [pc |-> "off", next |-> 1, supplied |-> <<>>, moduleDependencies |-> <<>>,
           libraryDependencies |-> <<>>, availableTypes |-> <<>>, version |-> 0,
           prereleaseTag |-> <<>>, dependencies |-> <<>>, out |-> <<>>]

-----------------------------------------------------------------------------
(* The collaborators of main: the registry info fetcher and the client     *)

\* fetchAndProcessNpmInfo(packageName): the version tagged latest, the highest
\* version uploaded, the content hash of the version tagged latest
fetchAndProcessNpmInfo(registry, lastModified) ==
    [version |-> parseSemver(registry.latest),
     highestSemverVersion |-> highestVersion(registry.versions),
     contentHash |-> registry.versions[registry.latest]["package.json"].typesPublisherContentHash,
     lastModified |-> lastModified]

\* NpmClient.publish with defaultTag next: uploads the directory as the
\* manifest's version and points next at it; a dry run uploads nothing
clientPublish(registry, publishedDirectory, packageJson, dry) ==
    IF dry THEN registry
    ELSE [registry EXCEPT !.versions = (packageJson.version :> publishedDirectory) @@ @,
                          !.next = packageJson.version]

\* NpmClient.tag: the registry refuses a version that was never uploaded
clientTagAccepted(registry, version) == version \in DOMAIN registry.versions
clientTag(registry, version, tag) ==
    IF tag = "latest" THEN [registry EXCEPT !.latest = version]
    ELSE [registry EXCEPT !.next = version]

-----------------------------------------------------------------------------
(* main                                                                    *)

Step == IF pc = <<>> THEN "idle" ELSE Head(pc)

Throw(error) ==
    /\ pc' = <<>>
    /\ outcome' = Threw(error)

\* main is started and fetchAndProcessNpmInfo(packageName) answers
StartRun ==
    /\ pc = <<>>
    /\ npm.latest[3] <= MaxPatch
    /\ \E dry \in BOOLEAN, lastModified \in Times :
         LET info == fetchAndProcessNpmInfo(npm, lastModified)
         IN  run' = [NoRun EXCEPT
                       !.dry = dry,
                       !.lastModified = info.lastModified,
                       !.oldVersion = info.version,
                       !.highestSemverVersion = info.highestSemverVersion,
                       !.oldContentHash = info.contentHash,
                       !.npm0 = npm]
    /\ pc' = mainSteps
    /\ calls' = <<Call("fetchAndProcessNpmInfo", packageName)>>
    /\ outcome' = Running
    /\ UNCHANGED <<npm, outDir, valDir, tagsIn, tagsOut, tpc, gen, dep>>

\* main is started and fetchAndProcessNpmInfo(packageName) rejects
StartRunRejected ==
    /\ pc = <<>>
    /\ npm.latest[3] <= MaxPatch
    /\ \E dry \in BOOLEAN : run' = [NoRun EXCEPT !.dry = dry, !.npm0 = npm]
    /\ calls' = <<>>
    /\ Throw(<<"I/O error", "fetchAndProcessNpmInfo">>)
    /\ UNCHANGED <<npm, outDir, valDir, tagsIn, tagsOut, tpc, gen, dep>>

Guard ==
    /\ Step = "guard"
    /\ IF ~isAWeekAfter(run.lastModified)
       THEN /\ pc' = <<>>
            /\ outcome' = Returned
            /\ calls' = Append(calls, Call("log", "Was modified less than a week ago, so do nothing."))
       ELSE /\ pc' = Tail(pc)
            /\ outcome' = outcome
            /\ calls' = calls
    /\ UNCHANGED <<npm, run, outDir, valDir, tagsIn, tagsOut, tpc, gen, dep>>

\* await NpmClient.create({ defaultTag: "next" })
CreateClient ==
    /\ Step = "createClient"
    /\ calls' = Append(calls, Call("NpmClient.create", "next"))
    /\ pc' = Tail(pc)
    /\ UNCHANGED <<npm, run, outDir, valDir, outcome, tagsIn, tagsOut, tpc, gen, dep>>

\* await AllPackages.readTypings(); generateRegistry is called with the
\* typings and starts their fetches
ReadTypings ==
    /\ Step = "readTypings"
    /\ \E typings \in AllTypings :
         run' = [run EXCEPT !.typings = typings, !.pending = 1..Len(typings),
                            !.entries = <<>>]
    /\ pc' = Tail(pc)
    /\ UNCHANGED <<npm, outDir, valDir, calls, outcome, tagsIn, tagsOut, tpc, gen, dep>>

\* inside generateRegistry, fetchNpmInfo answers for one typing and the
\* callback records its tags
FetchNpmInfo ==
    /\ Step = "generateRegistry"
    /\ \E i \in run.pending, info \in AllInfos :
         LET name == run.typings[i]
         IN  run' = [run EXCEPT !.entries = recordTags(@, name, info[name]),
                                !.pending = @ \ {i}]
    /\ UNCHANGED <<npm, pc, outDir, valDir, calls, outcome, tagsIn, tagsOut, tpc, gen, dep>>

\* generateRegistry returns { entries }; JSON.stringify and computeHash
GenerateRegistry ==
    /\ Step = "generateRegistry"
    /\ run.pending = {}
    /\ LET registry == JSONstringify([entries |-> run.entries])
       IN  run' = [run EXCEPT !.registry = registry,
                              !.newContentHash = computeHash(registry),
                              !.typings = <<>>, !.entries = <<>>]
    /\ calls' = Append(calls, Call("generateRegistry", "fetchNpmInfo"))
    /\ pc' = Tail(pc)
    /\ UNCHANGED <<npm, outDir, valDir, outcome, tagsIn, tagsOut, tpc, gen, dep>>

\* the asserts on oldVersion, then newVersion and generatePackageJson
AssertVersion ==
    /\ Step = "assert"
    /\ IF versionPrecondition(run.oldVersion)
       THEN /\ pc' = Tail(pc)
            /\ outcome' = outcome
            /\ LET newVersion == newVersionOf(run.oldVersion)
                   packageJson == generatePackageJson(newVersion, run.newContentHash)
               IN  run' = [run EXCEPT !.newVersion = newVersion,
                                      !.packageJson = packageJson]
       ELSE /\ Throw(<<"AssertionError">>)
            /\ run' = run
    /\ UNCHANGED <<npm, outDir, valDir, calls, tagsIn, tagsOut, tpc, gen, dep>>

\* generate(): await emptyDir(registryOutputPath)
EmptyOutputDir ==
    /\ Step = "emptyDir"
    /\ outDir' = EmptyDir
    /\ calls' = Append(calls, Call("emptyDir", "output"))
    /\ pc' = Tail(pc)
    /\ UNCHANGED <<npm, run, valDir, outcome, tagsIn, tagsOut, tpc, gen, dep>>

\* generate(): await writeOutputJson("package.json", packageJson)
WritePackageJson ==
    /\ Step = "writePackageJson"
    /\ outDir' = WriteTo(outDir, "package.json", run.packageJson)
    /\ calls' = Append(calls, Call("writeFile", "package.json"))
    /\ pc' = Tail(pc)
    /\ UNCHANGED <<npm, run, valDir, outcome, tagsIn, tagsOut, tpc, gen, dep>>

\* generate(): await writeOutputFile("index.json", registry)
WriteIndexJson ==
    /\ Step = "writeIndexJson"
    /\ outDir' = WriteTo(outDir, "index.json", run.registry)
    /\ calls' = Append(calls, Call("writeFile", "index.json"))
    /\ pc' = Tail(pc)
    /\ UNCHANGED <<npm, run, valDir, outcome, tagsIn, tagsOut, tpc, gen, dep>>

\* generate(): await writeOutputFile("README.md", readme)
WriteReadme ==
    /\ Step = "writeReadme"
    /\ outDir' = WriteTo(outDir, "README.md", readme)
    /\ calls' = Append(calls, Call("writeFile", "README.md"))
    /\ pc' = Tail(pc)
    /\ UNCHANGED <<npm, run, valDir, outcome, tagsIn, tagsOut, tpc, gen, dep>>

Branch ==
    /\ Step = "branch"
    /\ LET branch == chooseBranch(run.highestSemverVersion, run.oldVersion,
                                  run.oldContentHash, run.newContentHash)
       IN  /\ pc' = branchSteps(branch) \o Tail(pc)
           /\ calls' = Append(calls, Call("log", branchMessage(branch)))
    /\ UNCHANGED <<npm, run, outDir, valDir, outcome, tagsIn, tagsOut, tpc, gen, dep>>

ReadNotNeeded ==
    /\ Step = "readNotNeeded"
    /\ \E notNeeded \in AllNotNeeded : run' = [run EXCEPT !.notNeeded = notNeeded]
    /\ pc' = Tail(pc)
    /\ UNCHANGED <<npm, outDir, valDir, calls, outcome, tagsIn, tagsOut, tpc, gen, dep>>

\* installForValidate(): await emptyDir(validateOutputPath)
EmptyValidateDir ==
    /\ Step = "emptyValidateDir"
    /\ valDir' = EmptyDir
    /\ pc' = Tail(pc)
    /\ UNCHANGED <<npm, run, outDir, calls, outcome, tagsIn, tagsOut, tpc, gen, dep>>

\* installForValidate(): await writeJson of the package.json of the directory
\* that npm installs into; the installed copy is not touched
WriteValidateJson ==
    /\ Step = "writeValidateJson"
    /\ pc' = Tail(pc)
    /\ UNCHANGED <<npm, run, outDir, valDir, calls, outcome, tagsIn, tagsOut, tpc, gen, dep>>

\* installForValidate(): npm install types-registry@next
Install ==
    /\ Step = "install"
    /\ valDir' = npm.versions[npm.next]
    /\ calls' = Append(calls, Call("install", npm.next))
    /\ pc' = Tail(pc)
    /\ UNCHANGED <<npm, run, outDir, outcome, tagsIn, tagsOut, tpc, gen, dep>>

\* npm install answered by a registry that has not yet caught up with this
\* run's upload: types-registry@next still resolves to the earlier version
InstallStale ==
    /\ Step = "install"
    /\ npm.next # run.npm0.next
    /\ valDir' = npm.versions[run.npm0.next]
    /\ calls' = Append(calls, Call("install", run.npm0.next))
    /\ pc' = Tail(pc)
    /\ UNCHANGED <<npm, run, outDir, outcome, tagsIn, tagsOut, tpc, gen, dep>>

\* validate(): assertDirectoriesEqual, ignoring package.json
AssertEqual ==
    /\ Step = "assertEqual"
    /\ IF directoriesEqual(outDir, valDir, {"package.json"})
       THEN /\ pc' = Tail(pc)
            /\ outcome' = outcome
            /\ calls' = Append(calls, Call("validate", "ok"))
       ELSE /\ Throw(<<"directories differ">>)
            /\ calls' = Append(calls, Call("validate", "throw"))
    /\ UNCHANGED <<npm, run, outDir, valDir, tagsIn, tagsOut, tpc, gen, dep>>

\* validateIsSubset(): assertDirectoriesEqual, ignoring package.json and index.json
AssertOthersEqual ==
    /\ Step = "assertOthersEqual"
    /\ IF directoriesEqual(outDir, valDir, {"package.json", "index.json"})
       THEN /\ pc' = Tail(pc)
            /\ outcome' = outcome
            /\ calls' = calls
       ELSE /\ Throw(<<"directories differ">>)
            /\ calls' = Append(calls, Call("validateIsSubset", "throw"))
    /\ UNCHANGED <<npm, run, outDir, valDir, tagsIn, tagsOut, tpc, gen, dep>>

\* validateIsSubset(): actual = await readJson(the installed index.json)
ReadActual ==
    /\ Step = "readActual"
    /\ run' = [run EXCEPT !.actual = readJson(valDir["index.json"])]
    /\ pc' = Tail(pc)
    /\ UNCHANGED <<npm, outDir, valDir, calls, outcome, tagsIn, tagsOut, tpc, gen, dep>>

\* validateIsSubset(): expected = await readJson(the generated index.json),
\* then the loop over the keys of the installed index
AssertSubset ==
    /\ Step = "assertSubset"
    /\ LET expected == readJson(outDir["index.json"])
           bad == unexpectedKeys(run.actual, expected, run.notNeeded)
       IN  IF bad # <<>>
           THEN /\ Throw(<<"Actual types-registry has unexpected key", bad[1][1]>>)
                /\ calls' = Append(calls, Call("validateIsSubset", "throw"))
           ELSE /\ pc' = Tail(pc)
                /\ outcome' = outcome
                /\ calls' = Append(calls, Call("validateIsSubset", "ok"))
    /\ run' = [run EXCEPT !.actual = <<>>]
    /\ UNCHANGED <<npm, outDir, valDir, tagsIn, tagsOut, tpc, gen, dep>>

\* await client.publish(registryOutputPath, packageJson, dry)
Publish ==
    /\ Step = "publish"
    /\ calls' = Append(calls, Call("publish", [packageJson |-> run.packageJson, dry |-> run.dry]))
    /\ npm' = clientPublish(npm, outDir, run.packageJson, run.dry)
    /\ pc' = Tail(pc)
    /\ UNCHANGED <<run, outDir, valDir, outcome, tagsIn, tagsOut, tpc, gen, dep>>

Sleep ==
    /\ Step = "sleep"
    /\ calls' = Append(calls, Call("sleep", 20))
    /\ pc' = Tail(pc)
    /\ UNCHANGED <<npm, run, outDir, valDir, outcome, tagsIn, tagsOut, tpc, gen, dep>>

\* await client.tag(packageName, version, "latest"), with the highest version
\* in the PROMOTE branch and the new version in publish()
Tag ==
    /\ Step \in {"tagHighest", "tagNew"}
    /\ LET version == IF Step = "tagHighest"
                      THEN versionString(run.highestSemverVersion)
                      ELSE run.newVersion
       IN  /\ calls' = Append(calls, Call("tag", version))
           /\ IF clientTagAccepted(npm, version)
              THEN /\ npm' = clientTag(npm, version, "latest")
                   /\ pc' = Tail(pc)
                   /\ outcome' = outcome
              ELSE /\ npm' = npm
                   /\ Throw(<<"tag: no such version">>)
    /\ UNCHANGED <<run, outDir, valDir, tagsIn, tagsOut, tpc, gen, dep>>

WriteLog ==
    /\ Step = "writeLog"
    /\ calls' = Append(calls, Call("writeLog", "publish-registry.md"))
    /\ pc' = Tail(pc)
    /\ outcome' = Returned
    /\ UNCHANGED <<npm, run, outDir, valDir, tagsIn, tagsOut, tpc, gen, dep>>

\* the steps that await an operation, which may reject
AwaitedSteps ==
    {"createClient", "readTypings", "generateRegistry", "emptyDir", "writePackageJson",
     "writeIndexJson", "writeReadme", "readNotNeeded", "emptyValidateDir",
     "writeValidateJson", "install", "assertEqual", "assertOthersEqual", "readActual",
     "assertSubset", "publish", "sleep", "tagHighest", "tagNew", "writeLog"}

\* an awaited operation rejects (or the process is stopped while it waits):
\* the error propagates and ends the run
Abort ==
    /\ Step \in AwaitedSteps
    /\ Throw(<<"I/O error", Step>>)
    /\ UNCHANGED <<npm, run, outDir, valDir, calls, tagsIn, tagsOut, tpc, gen, dep>>

Next ==
    \/ StartRun
    \/ StartRunRejected
    \/ Guard
    \/ CreateClient
    \/ ReadTypings
    \/ FetchNpmInfo
    \/ GenerateRegistry
    \/ AssertVersion
    \/ EmptyOutputDir
    \/ WritePackageJson
    \/ WriteIndexJson
    \/ WriteReadme
    \/ Branch
    \/ ReadNotNeeded
    \/ EmptyValidateDir
    \/ WriteValidateJson
    \/ Install
    \/ InstallStale
    \/ AssertEqual
    \/ AssertOthersEqual
    \/ ReadActual
    \/ AssertSubset
    \/ Publish
    \/ Sleep
    \/ Tag
    \/ WriteLog
    \/ Abort

Init == InitMain /\ InitTags /\ GenOff /\ DepOff

-----------------------------------------------------------------------------
(* filterTags on its own: every tag mapping is given to it once            *)

\* main has not run
MainOff ==
    /\ npm = [versions |-> (<<0, 1, 0>> :> EmptyDir), latest |-> <<0, 1, 0>>, next |-> <<0, 1, 0>>]
    /\ pc = <<>>
    /\ run = [NoRun EXCEPT !.npm0 = npm]
    /\ outDir = EmptyDir
    /\ valDir = EmptyDir
    /\ calls = <<>>
    /\ outcome = Running

InitFilterTags ==
    /\ MainOff
    /\ tagsIn \in AllTags
    /\ tagsOut = None
    /\ tpc = "call"
    /\ GenOff
    /\ DepOff

CallFilterTags ==
    /\ tpc = "call"
    /\ tagsOut' = Some(filterTags(tagsIn))
    /\ tpc' = "return"
    /\ UNCHANGED <<tagsIn, npm, pc, run, outDir, valDir, calls, outcome, gen, dep>>

NextFilterTags ==
    \/ CallFilterTags

SpecTags == InitFilterTags /\ [][NextFilterTags]_vars
Spec == Init /\ [][Next]_vars

-----------------------------------------------------------------------------
(* What a run has done, read from its calls and its inputs                 *)

Started == calls # <<>>
Issued(op) == \E i \in 1..Len(calls) : calls[i].op = op
IssuedWith(op, arg) == \E i \in 1..Len(calls) : calls[i].op = op /\ calls[i].arg = arg
\* the calls of the run with an operation among ops, in order
OpsAmong(ops) ==
    LET kept == SelectSeq(calls, LAMBDA c : c.op \in ops)
    IN  [i \in 1..Len(kept) |-> kept[i].op]
IsPrefix(s, t) == Len(s) <= Len(t) /\ \A i \in 1..Len(s) : s[i] = t[i]

Age == Now - run.lastModified
OneWeek == 7 * millisecondsPerDay
VersionFits == run.oldVersion.major = 0 /\ run.oldVersion.minor = 1
NeverTaggedLatest == run.highestSemverVersion # run.oldVersion
\* the run is past generateRegistry, so that newContentHash is this run's
Hashed == Issued("generateRegistry")
\* the run is past generate, so that the branch is about to be or has been taken
Generated == IssuedWith("writeFile", "README.md")
WritesOutput == Issued("emptyDir") \/ Issued("writeFile")
Validates == Issued("install") \/ Issued("validate") \/ Issued("validateIsSubset")
RegistryUntouched == npm = run.npm0

PromoteCase == Started /\ NeverTaggedLatest
PublishCase == Hashed /\ ~NeverTaggedLatest /\ run.oldContentHash # run.newContentHash
NoopCase == Hashed /\ ~NeverTaggedLatest /\ run.oldContentHash = run.newContentHash

-----------------------------------------------------------------------------
(* C1: when highestSemverVersion differs from oldVersion the run never      *)
(* calls client.publish; the only change it makes to the registry is to    *)
(* tag highestSemverVersion latest, and every such tag call comes after a  *)
(* validateIsSubset that returned without throwing.                        *)
PromoteOnlyTagsAfterSubset ==
    PromoteCase =>
        /\ ~Issued("publish")
        /\ \A i \in 1..Len(calls) : calls[i].op = "tag" =>
              /\ calls[i].arg = versionString(run.highestSemverVersion)
              /\ \E j \in 1..(i - 1) :
                    calls[j].op = "validateIsSubset" /\ calls[j].arg = "ok"
        /\ npm.versions = run.npm0.versions
        /\ npm.next = run.npm0.next
        /\ npm.latest \in {run.npm0.latest, versionString(run.highestSemverVersion)}

PromoteTagged ==
    /\ PromoteCase
    /\ Issued("tag")
    /\ npm.latest = versionString(run.highestSemverVersion)
    /\ npm.latest # run.npm0.latest
    /\ outcome = Returned

(* C2, as claimed: in the PUBLISH branch the run uploads, sleeps, installs  *)
(* and validates, and tags the new version latest, in that order; when     *)
(* validate throws the run ends with that error, client.tag is not called, *)
(* and the new version is left uploaded but not tagged latest.             *)
PublishOrderLeavesUpload ==
    PublishCase =>
        /\ IsPrefix(OpsAmong({"publish", "sleep", "install", "validate", "tag"}),
                    <<"publish", "sleep", "install", "validate", "tag">>)
        /\ \A i \in 1..Len(calls) : calls[i].op = "tag" => calls[i].arg = run.newVersion
        /\ IssuedWith("validate", "throw") =>
              /\ pc = <<>>
              /\ outcome = Threw(<<"directories differ">>)
              /\ ~Issued("tag")
              /\ npm.latest = run.npm0.latest
              /\ run.newVersion \in DOMAIN npm.versions
              /\ npm.next = run.newVersion

(* C2, amended: in the PUBLISH branch the run uploads, sleeps, installs    *)
(* and validates, and tags the new version latest, in that order; when     *)
(* validate throws the run ends with that error, client.tag is not called  *)
(* and latest stays where it was; unless the run is a dry run, the new     *)
(* version is then left uploaded (under next) but not tagged latest.       *)
PublishOrder ==
    PublishCase =>
        /\ IsPrefix(OpsAmong({"publish", "sleep", "install", "validate", "tag"}),
                    <<"publish", "sleep", "install", "validate", "tag">>)
        /\ \A i \in 1..Len(calls) : calls[i].op = "tag" => calls[i].arg = run.newVersion
        /\ IssuedWith("validate", "throw") =>
              /\ pc = <<>>
              /\ outcome = Threw(<<"directories differ">>)
              /\ ~Issued("tag")
              /\ npm.latest = run.npm0.latest
              /\ ~run.dry => /\ run.newVersion \in DOMAIN npm.versions
                             /\ npm.next = run.newVersion

PublishedNotTagged ==
    /\ PublishCase
    /\ ~run.dry
    /\ IssuedWith("validate", "throw")
    /\ run.newVersion \in DOMAIN npm.versions
    /\ npm.latest # run.newVersion

(* C3: when the hashes are equal and highestSemverVersion equals           *)
(* oldVersion, the run calls neither client.publish nor client.tag and     *)
(* leaves the registry's versions and dist-tags as they were; a run that   *)
(* returns after passing the guard has performed the full validate.        *)
NoopOnlyValidates ==
    NoopCase =>
        /\ ~Issued("publish")
        /\ ~Issued("tag")
        /\ ~Issued("validateIsSubset")
        /\ RegistryUntouched
        /\ outcome = Returned =>
              /\ IssuedWith("install", npm.next)
              /\ IssuedWith("validate", "ok")
              /\ directoriesEqual(outDir, valDir, {"package.json"})

NoopValidated ==
    /\ NoopCase
    /\ outcome = Returned
    /\ IssuedWith("validate", "ok")

(* C4: when the published state is less than one week old the run returns  *)
(* at once: after fetching the published state it only logs that it does   *)
(* nothing; no snapshot fetch, no output write, no validation, no publish, *)
(* no tag.                                                                 *)
FreshStateSkipsRun ==
    (Started /\ Age < OneWeek) =>
        /\ \A i \in 1..Len(calls) : calls[i].op \in {"fetchAndProcessNpmInfo", "log"}
        /\ ~Issued("generateRegistry")
        /\ ~WritesOutput
        /\ ~Validates
        /\ ~Issued("publish")
        /\ ~Issued("tag")
        /\ RegistryUntouched
        /\ pc = <<>> => outcome = Returned

FreshStateSkipped ==
    /\ Started
    /\ Age = 3 * millisecondsPerDay
    /\ pc = <<>>
    /\ outcome = Returned
    /\ Len(calls) = 2

(* C5, as claimed: whenever the old published version is not 0.1.x the run *)
(* never completes normally and writes, validates, publishes and tags      *)
(* nothing.                                                                *)
BadVersionAlwaysHalts ==
    (Started /\ ~VersionFits) =>
        /\ outcome # Returned
        /\ ~WritesOutput
        /\ ~Validates
        /\ ~Issued("publish")
        /\ ~Issued("tag")

(* C5, amended: whenever the old published version is not 0.1.x and the    *)
(* published state is more than one week old, the run ends with an error   *)
(* and never returns normally, and it writes, validates, publishes and     *)
(* tags nothing.                                                           *)
BadVersionHaltsPastGuard ==
    (Started /\ ~VersionFits /\ Age > OneWeek) =>
        /\ outcome # Returned
        /\ pc = <<>> => outcome.kind = "threw"
        /\ ~WritesOutput
        /\ ~Validates
        /\ ~Issued("publish")
        /\ ~Issued("tag")
        /\ RegistryUntouched

BadVersionHalted ==
    /\ Started
    /\ ~VersionFits
    /\ Age > OneWeek
    /\ Hashed
    /\ outcome = Threw(<<"AssertionError">>)

(* C6: in the PUBLISH branch the manifest given to client.publish carries   *)
(* the version 0.1.(old patch + 1) and the hash of the registry text just  *)
(* generated, that manifest and that text are what the output directory    *)
(* holds, and the version tagged latest afterwards is that same version.   *)
PublishesNextPatchWithNewHash ==
    PublishCase =>
        \A i \in 1..Len(calls) :
            /\ calls[i].op = "publish" =>
                  /\ calls[i].arg.packageJson.name = packageName
                  /\ calls[i].arg.packageJson.version = <<0, 1, run.oldVersion.patch + 1>>
                  /\ calls[i].arg.packageJson.typesPublisherContentHash
                        = computeHash(run.registry)
                  /\ outDir["package.json"] = calls[i].arg.packageJson
                  /\ outDir["index.json"] = run.registry
                  /\ ~run.dry => npm.versions[<<0, 1, run.oldVersion.patch + 1>>] = outDir
            /\ calls[i].op = "tag" =>
                  /\ calls[i].arg = <<0, 1, run.oldVersion.patch + 1>>
                  /\ IssuedWith("publish", [packageJson |-> outDir["package.json"],
                                            dry |-> run.dry])

PublishedAndTagged ==
    /\ PublishCase
    /\ ~run.dry
    /\ Issued("publish")
    /\ IssuedWith("tag", <<0, 1, run.oldVersion.patch + 1>>)
    /\ npm.latest = <<0, 1, run.oldVersion.patch + 1>>
    /\ outcome = Returned

\* the keys of the installed index that the fresh index lacks and that no
\* not-needed package is named by
Unaccounted ==
    {k \in Keys(readJson(valDir["index.json"]).entries) :
        /\ k \notin Keys(readJson(outDir["index.json"]).entries)
        /\ k \notin run.notNeeded}

(* C7: in the PROMOTE branch, with the installed and the generated         *)
(* directory equal outside package.json and index.json, validateIsSubset   *)
(* throws if and only if the installed index has a key that is neither a   *)
(* key of the generated index nor the name of a not-needed package; the    *)
(* error names such a key; when it throws the run ends and nothing is      *)
(* tagged latest.                                                          *)
SubsetThrowsOnUnaccountedKey ==
    \A i \in 1..Len(calls) : calls[i].op = "validateIsSubset" =>
        /\ PromoteCase
        /\ outDir["README.md"] = valDir["README.md"] =>
              /\ calls[i].arg = "throw" <=> Unaccounted # {}
              /\ calls[i].arg = "throw" =>
                    /\ outcome.error[1] = "Actual types-registry has unexpected key"
                    /\ outcome.error[2] \in Unaccounted
        /\ calls[i].arg = "throw" =>
              /\ pc = <<>>
              /\ outcome.kind = "threw"
              /\ ~Issued("tag")
              /\ npm.latest = run.npm0.latest

SubsetThrew ==
    /\ PromoteCase
    /\ IssuedWith("validateIsSubset", "throw")
    /\ outDir["README.md"] = valDir["README.md"]
    /\ outcome = Threw(<<"Actual types-registry has unexpected key", "node">>)

\* the message a run past generate has logged for its branch, by the priority
\* of the three conditions
ExpectedMessage ==
    IF NeverTaggedLatest
    THEN "Old version of types-registry was never tagged latest, so updating"
    ELSE IF run.oldContentHash # run.newContentHash
    THEN "New packages have been added, so publishing a new registry."
    ELSE "No new packages published, so no need to publish new registry."
BranchMessages ==
    {"Old version of types-registry was never tagged latest, so updating",
     "New packages have been added, so publishing a new registry.",
     "No new packages published, so no need to publish new registry."}
BranchesLogged ==
    SelectSeq(calls, LAMBDA c : c.op = "log" /\ c.arg \in BranchMessages)

(* C8: a run that passes the guard and the version precondition executes   *)
(* one branch only, PROMOTE if highestSemverVersion differs from           *)
(* oldVersion (whatever the hashes), else PUBLISH if the hashes differ,    *)
(* else NOOP: it enters no second branch, and the calls it issues are      *)
(* those of the chosen branch.                                             *)
ExactlyOneBranchByPriority ==
    /\ Len(BranchesLogged) <= 1
    /\ (Validates \/ Issued("publish") \/ Issued("tag")) => Len(BranchesLogged) = 1
    /\ (Generated /\ outcome = Returned) => Len(BranchesLogged) = 1
    /\ Len(BranchesLogged) = 1 =>
          /\ Generated /\ VersionFits /\ Age > OneWeek
          /\ BranchesLogged[1].arg = ExpectedMessage
          /\ NeverTaggedLatest =>
                ~Issued("publish") /\ ~Issued("validate")
          /\ (~NeverTaggedLatest /\ run.oldContentHash # run.newContentHash) =>
                ~Issued("validateIsSubset")
          /\ (~NeverTaggedLatest /\ run.oldContentHash = run.newContentHash) =>
                ~Issued("validateIsSubset") /\ ~Issued("publish") /\ ~Issued("tag")
          /\ outcome = Returned =>
                IF NeverTaggedLatest
                THEN IssuedWith("validateIsSubset", "ok") /\ Issued("tag")
                ELSE IF run.oldContentHash # run.newContentHash
                THEN Issued("publish") /\ IssuedWith("validate", "ok") /\ Issued("tag")
                ELSE IssuedWith("validate", "ok")

PromotedThoughHashesDiffer ==
    /\ NeverTaggedLatest
    /\ Hashed
    /\ run.oldContentHash # run.newContentHash
    /\ Issued("tag")
    /\ outcome = Returned

-----------------------------------------------------------------------------
(* filterTags                                                              *)

Entries(obj) == Range(obj)

(* C9: for a tag mapping with a latest entry, the result holds latest with *)
(* its version, every other entry of the result is an entry of the         *)
(* argument whose version is not latest's, and every entry of the argument *)
(* whose version is not latest's is in the result.                         *)
FilterKeepsLatestDropsAliases ==
    (tpc = "return" /\ HasKey(tagsIn, "latest")) =>
        LET out == tagsOut[1]
            latestVersion == Get(tagsIn, "latest")
        IN  /\ IsObject(out)
            /\ <<"latest", latestVersion>> \in Entries(out)
            /\ \A e \in Entries(out) : e[1] # "latest" =>
                  e \in Entries(tagsIn) /\ e[2] # latestVersion
            /\ \A e \in Entries(tagsIn) : e[2] # latestVersion => e \in Entries(out)

FilteredAliasOfLatest ==
    /\ tpc = "return"
    /\ HasKey(tagsIn, "latest")
    /\ \E e \in Entries(tagsIn) : e[1] # "latest" /\ e[2] = Get(tagsIn, "latest")
    /\ \E e \in Entries(tagsIn) : e[2] # Get(tagsIn, "latest")
    /\ Len(tagsOut[1]) < Len(tagsIn)

(* C10: for a tag mapping without a latest entry, the result equals the    *)
(* argument: no entry is dropped, none is added.                           *)
FilterWithoutLatestIsIdentity ==
    (tpc = "return" /\ ~HasKey(tagsIn, "latest")) => tagsOut = Some(tagsIn)

FilteredWithoutLatest ==
    /\ tpc = "return"
    /\ ~HasKey(tagsIn, "latest")
    /\ Len(tagsIn) = 3
    /\ tagsOut = Some(tagsIn)

-----------------------------------------------------------------------------
(* generateRegistry on its own: the fetches of nAtATime complete in any    *)
(* order that fetchParallelism allows                                      *)

GenTypings == <<"jquery", "node", "10", "2">>
\* the typings given to generateRegistry: the first k of GenTypings
AllGenTypings == {SubSeq(GenTypings, 1, k) : k \in 0..Len(GenTypings)}
GenFetched == {None,
               Some(<<<<"latest", "1.0.0">>, <<"ts2.0", "1.0.0">>>>),
               Some(<<<<"beta", "2.0.0">>, <<"latest", "1.0.0">>>>)}
Min(a, b) == IF a < b THEN a ELSE b

\* nAtATime(n, inputs, use): n workers, each taking the next input when the
\* use of its last one has completed
InitGenerateRegistry ==
    /\ MainOff
    /\ InitTags
    /\ DepOff
    /\ \E typings \in AllGenTypings, info \in [Range(GenTypings) -> GenFetched],
          n \in 1..MaxParallel :
         gen = [pc |-> "running", typings |-> typings, info |-> info, parallel |-> n,
                next |-> Min(n, Len(typings)) + 1,
                inflight |-> 1..Min(n, Len(typings)),
                entries |-> <<>>]

\* the fetch of one typing in flight answers; its worker records the tags and
\* takes the next typing
CompleteFetch ==
    /\ gen.pc = "running"
    /\ \E i \in gen.inflight :
         LET name == gen.typings[i]
             more == gen.next <= Len(gen.typings)
         IN  gen' = [gen EXCEPT
                       !.entries = recordTags(@, name, gen.info[name]),
                       !.inflight = (@ \ {i}) \cup (IF more THEN {gen.next} ELSE {}),
                       !.next = IF more THEN @ + 1 ELSE @]
    /\ UNCHANGED <<npm, pc, run, outDir, valDir, calls, outcome, tagsIn, tagsOut, tpc, dep>>

\* every worker is done: generateRegistry returns { entries }
ReturnRegistry ==
    /\ gen.pc = "running"
    /\ gen.inflight = {}
    /\ gen' = [gen EXCEPT !.pc = "done"]
    /\ UNCHANGED <<npm, pc, run, outDir, valDir, calls, outcome, tagsIn, tagsOut, tpc, dep>>

NextGenerateRegistry ==
    \/ CompleteFetch
    \/ ReturnRegistry

SpecGen == InitGenerateRegistry /\ [][NextGenerateRegistry]_vars

\* the typings whose fetched info carried dist-tags
Tagged == {gen.typings[i] : i \in {j \in 1..Len(gen.typings) : gen.info[gen.typings[j]] # None}}

(* C11: when generateRegistry returns, the keys of the snapshot are the    *)
(* names of the typings whose fetched info carried dist-tags, each mapped  *)
(* to filterTags of those dist-tags; a typing without dist-tags is left    *)
(* out and the run of generateRegistry still returns.                      *)
SnapshotHoldsTaggedPackages ==
    /\ gen.pc = "done" =>
          /\ IsObject(gen.entries)
          /\ Keys(gen.entries) = Tagged
          /\ \A name \in Tagged : Get(gen.entries, name) = filterTags(gen.info[name][1])
    /\ (gen.pc = "running" /\ gen.inflight = {}) => gen.next = Len(gen.typings) + 1

SnapshotOmittedUntagged ==
    /\ gen.pc = "done"
    /\ Len(gen.typings) = 3
    /\ Cardinality(Tagged) = 2
    /\ gen.info["node"] = None
    /\ Len(gen.entries) = 2

\* the text of the snapshot had the fetches completed in the order of typings
SequentialText ==
    JSONstringify(generateRegistry(gen.typings, gen.info,
                                   [i \in 1..Len(gen.typings) |-> i]))

(* C12: for fixed typings and fixed answers of the registry, the text of   *)
(* the snapshot and its hash are the same whatever the order in which the  *)
(* fetches complete (so they are those of the fetches completing in the    *)
(* order of typings), and so is the choice between PUBLISH and NOOP        *)
(* against a published hash.                                               *)
SnapshotTextSameForEveryOrder ==
    gen.pc = "done" =>
        LET text == JSONstringify([entries |-> gen.entries])
            published == computeHash(SequentialText)
            version == Semver(0, 1, 0)
        IN  /\ text = SequentialText
            /\ computeHash(text) = computeHash(SequentialText)
            /\ chooseBranch(version, version, published, computeHash(text))
                  = chooseBranch(version, version, published, computeHash(SequentialText))

-----------------------------------------------------------------------------
(* Runs after runs                                                         *)

SkipMessage == "Was modified less than a week ago, so do nothing."
PromoteMessage == "Old version of types-registry was never tagged latest, so updating"
NoopMessage == "No new packages published, so no need to publish new registry."
BranchOps == {"install", "validate", "validateIsSubset", "publish", "tag"}

\* the run has ended with an error after its upload and before its tag
AbortedAfterUpload ==
    /\ pc = <<>>
    /\ outcome.kind = "threw"
    /\ ~run.dry
    /\ Issued("publish")
    /\ run.newVersion \in DOMAIN npm.versions
    /\ npm.latest # run.newVersion

(* C13: when a PUBLISH run has ended with an error after client.publish    *)
(* uploaded and before client.tag, the run started next finds the uploaded *)
(* version as the highest one, never tagged latest; and every run that     *)
(* finds such a version and passes the guard takes the PROMOTE branch,     *)
(* uploads nothing, and, once validateIsSubset has returned and the run    *)
(* has returned, has tagged that same version latest, with no higher       *)
(* version created.                                                        *)
AbortedPublishIsPromotedNext ==
    /\ [][(AbortedAfterUpload /\ pc' # <<>>) =>
            /\ run'.highestSemverVersion = parseSemver(run.newVersion)
            /\ run'.oldVersion = run.oldVersion
            /\ run'.highestSemverVersion # run'.oldVersion
            /\ versionPrecondition(run'.oldVersion)]_vars
    /\ [](PromoteCase =>
            /\ Len(BranchesLogged) = 1 => BranchesLogged[1].arg = PromoteMessage
            /\ ~Issued("publish")
            /\ npm.versions = run.npm0.versions
            /\ highestVersion(npm.versions) = run.highestSemverVersion
            /\ (IssuedWith("validateIsSubset", "ok") /\ outcome = Returned) =>
                  /\ IssuedWith("tag", versionString(run.highestSemverVersion))
                  /\ npm.latest = versionString(run.highestSemverVersion)
            /\ (Generated /\ outcome = Returned) => IssuedWith("validateIsSubset", "ok"))

PromotedAfterAbortedPublish ==
    /\ PromoteCase
    /\ outcome = Returned
    /\ run.npm0.next = versionString(run.highestSemverVersion)
    /\ run.npm0.latest = versionString(run.oldVersion)
    /\ run.highestSemverVersion.patch = run.oldVersion.patch + 1
    /\ npm.latest = run.npm0.next
    /\ npm.versions = run.npm0.versions

(* C14: whenever the NOOP branch is reached, types-registry@next resolves  *)
(* to the version tagged latest, so the artifact that validate installs    *)
(* and compares with the generated output is the one tagged latest.        *)
NoopValidatesLatest ==
    IssuedWith("log", NoopMessage) =>
        /\ npm.next = npm.latest
        /\ \A i \in 1..Len(calls) : calls[i].op = "install" => calls[i].arg = npm.latest
        /\ Issued("install") =>
              /\ valDir = npm.versions[npm.latest]
              /\ valDir["package.json"].version = npm.latest

NoopInstalledLatest ==
    /\ IssuedWith("log", NoopMessage)
    /\ IssuedWith("install", npm.latest)
    /\ Cardinality(DOMAIN npm.versions) > 1
    /\ valDir["package.json"].version = npm.latest

GenerateCalls ==
    <<Call("emptyDir", "output"), Call("writeFile", "package.json"),
      Call("writeFile", "index.json"), Call("writeFile", "README.md")>>
\* the place of the last of the calls of generate, 0 before it
GeneratedAt ==
    IF Generated
    THEN CHOOSE i \in 1..Len(calls) : calls[i] = Call("writeFile", "README.md")
    ELSE 0

(* C15: every run past the guard and the version precondition empties the  *)
(* output directory and then writes package.json, index.json and          *)
(* README.md, in that order, and all of it before any install,            *)
(* validation, publish or tag of its branch, whichever branch it takes.    *)
OutputRegeneratedBeforeBranch ==
    /\ IsPrefix(SelectSeq(calls, LAMBDA c : c.op \in {"emptyDir", "writeFile"}),
                GenerateCalls)
    /\ \A i \in 1..Len(calls) :
          (calls[i].op \in BranchOps \/ (calls[i].op = "log" /\ calls[i].arg \in BranchMessages))
              => (Generated /\ GeneratedAt < i)
    /\ (Started /\ Age > OneWeek /\ VersionFits /\ outcome = Returned) => Generated
    /\ (Generated /\ pc # <<>>) =>
          outDir = Artifact(run.packageJson, run.registry, readme)

OutputRegeneratedInPromote ==
    /\ PromoteCase
    /\ Generated
    /\ Issued("install")
    /\ Issued("tag")
    /\ outDir # run.npm0.versions[run.npm0.next]

(* C16: the guard skips the run exactly when the published state is less   *)
(* than one week old; at an age of exactly one week or more the run is not *)
(* skipped.                                                                *)
SkippedExactlyWhenYoungerThanAWeek ==
    (Started /\ Len(calls) >= 2) => (IssuedWith("log", SkipMessage) <=> Age < OneWeek)

(* C17: over the runs, the highest version uploaded is the version tagged  *)
(* latest or the next patch after it, and a run uploads a version only if  *)
(* it found the highest version tagged latest.                             *)
AtMostOneUnpromotedVersion ==
    LET highest == highestVersion(npm.versions)
        tagged == parseSemver(npm.latest)
    IN  /\ \/ highest = tagged
           \/ highest = Semver(tagged.major, tagged.minor, tagged.patch + 1)
        /\ Issued("publish") => ~NeverTaggedLatest
        /\ npm.versions # run.npm0.versions =>
              highestVersion(run.npm0.versions) = parseSemver(run.npm0.latest)

UnpromotedAfterTwoUploads ==
    /\ Cardinality(DOMAIN npm.versions) = 3
    /\ highestVersion(npm.versions) # parseSemver(npm.latest)
    /\ PromoteCase
    /\ Generated

(* C18: the tag latest is only ever set to a version that has been         *)
(* uploaded, and no client.tag call names a version that was never         *)
(* uploaded, also in a dry run of the PUBLISH branch.                      *)
TagsOnlyUploadedVersions ==
    /\ npm.latest \in DOMAIN npm.versions
    /\ \A i \in 1..Len(calls) : calls[i].op = "tag" => calls[i].arg \in DOMAIN npm.versions

-----------------------------------------------------------------------------
(* createPackageJSON and addInferredDependencies of package-generator.ts.  *)
(* A package name is the sequence of its parts between slashes, a semver   *)
(* range the sequence of its parts between dots.                           *)

\* the modules and libraries a typing can refer to
DepNames == {<<"jquery">>, <<"node">>, <<"http">>}
LibNames == {<<"jquery">>, <<"node">>}
\* `@types/${name}`
fullPackageName(name) == <<"@types">> \o name

\* a number in a template literal
numberToString(n) == <<"0", "1", "2", "3", "4", "5", "6", "7", "8", "9">>[n + 1]

TypingsData(major, minor) == [libraryMajorVersion |-> major, libraryMinorVersion |-> minor]
\* availableTypes: the typings known, by name
AllAvailableTypes ==
    {j \o n : j \in {<<>>, << <<(<<"jquery">>), TypingsData(2, 1)>> >>},
              n \in {<<>>, << <<(<<"node">>), TypingsData(1, 0)>> >>}}

\* the dependencies of the typing's own partial package.json, when it has them
SuppliedKeys == {<<"jquery">>, <<"@types", "jquery">>, <<"moment">>}
SuppliedRange == <<"1", "0", "0">>
AllSupplied ==
    {None} \cup {Some(d) : d \in {o \in SeqUpTo(SuppliedKeys \X {SuppliedRange}, 2) : IsObject(o)}}
PrereleaseTags == {None, Some("alpha")}
Versions == {0, 1}

\* addDependency(d) of addInferredDependencies, as the new value of dependencies;
\* a full package name has a slash, so it is no array index
addDependency(dependencies, d, availableTypes, version, prereleaseTag) ==
    IF HasKey(dependencies, d) \/ ~HasKey(availableTypes, d)
    THEN dependencies
    ELSE LET type == Get(availableTypes, d)
             patch == IF prereleaseTag # None
                      THEN <<numberToString(version), "-", prereleaseTag[1]>>
                      ELSE <<"*">>
             semver == <<numberToString(type.libraryMajorVersion),
                         numberToString(type.libraryMinorVersion)>> \o patch
         IN  Assign(dependencies, fullPackageName(d), semver)

InitDependencies ==
    /\ MainOff
    /\ InitTags
    /\ GenOff
    /\ \E supplied \in AllSupplied,
          moduleDependencies \in SeqUpTo(DepNames, MaxDeps),
          libraryDependencies \in SeqUpTo(LibNames, MaxDeps),
          availableTypes \in AllAvailableTypes,
          version \in Versions, prereleaseTag \in PrereleaseTags :
         dep = [pc |-> "module", next |-> 1, supplied |-> supplied,
                moduleDependencies |-> moduleDependencies,
                libraryDependencies |-> libraryDependencies,
                availableTypes |-> availableTypes, version |-> version,
                prereleaseTag |-> prereleaseTag,
                dependencies |-> IF supplied = None THEN <<>> ELSE supplied[1],
                out |-> <<>>]

\* typing.moduleDependencies.forEach(addDependency), one element
AddModuleDependency ==
    /\ dep.pc = "module"
    /\ dep.next <= Len(dep.moduleDependencies)
    /\ dep' = [dep EXCEPT
                 !.dependencies = addDependency(@, dep.moduleDependencies[dep.next],
                                                dep.availableTypes, dep.version,
                                                dep.prereleaseTag),
                 !.next = @ + 1]
    /\ UNCHANGED <<npm, pc, run, outDir, valDir, calls, outcome, tagsIn, tagsOut, tpc, gen>>

\* the first forEach is over; the second begins
ModuleDependenciesDone ==
    /\ dep.pc = "module"
    /\ dep.next > Len(dep.moduleDependencies)
    /\ dep' = [dep EXCEPT !.pc = "library", !.next = 1]
    /\ UNCHANGED <<npm, pc, run, outDir, valDir, calls, outcome, tagsIn, tagsOut, tpc, gen>>

\* typing.libraryDependencies.forEach(addDependency), one element
AddLibraryDependency ==
    /\ dep.pc = "library"
    /\ dep.next <= Len(dep.libraryDependencies)
    /\ dep' = [dep EXCEPT
                 !.dependencies = addDependency(@, dep.libraryDependencies[dep.next],
                                                dep.availableTypes, dep.version,
                                                dep.prereleaseTag),
                 !.next = @ + 1]
    /\ UNCHANGED <<npm, pc, run, outDir, valDir, calls, outcome, tagsIn, tagsOut, tpc, gen>>

\* addInferredDependencies returns; createPackageJSON puts dependencies in the manifest
ReturnPackageJSON ==
    /\ dep.pc = "library"
    /\ dep.next > Len(dep.libraryDependencies)
    /\ dep' = [dep EXCEPT !.pc = "done",
                          !.out = << <<"license", "MIT">>,
                                     <<"dependencies", dep.dependencies>> >>]
    /\ UNCHANGED <<npm, pc, run, outDir, valDir, calls, outcome, tagsIn, tagsOut, tpc, gen>>

NextDependencies ==
    \/ AddModuleDependency
    \/ ModuleDependenciesDone
    \/ AddLibraryDependency
    \/ ReturnPackageJSON

SpecDeps == InitDependencies /\ [][NextDependencies]_vars

\* the dependencies of the partial package.json ({} without one)
Supplied == IF dep.supplied = None THEN <<>> ELSE dep.supplied[1]
\* the names the typing refers to
Referred == Range(dep.moduleDependencies) \cup Range(dep.libraryDependencies)

(* C19: in the manifest createPackageJSON returns, every key of the        *)
(* supplied dependencies has its supplied value, and every other key is    *)
(* the full package name of a module or library dependency that is known   *)
(* in availableTypes.                                                      *)
SuppliedDependenciesKept ==
    dep.pc = "done" =>
        LET dependencies == Get(dep.out, "dependencies")
        IN  /\ \A k \in Keys(Supplied) : Get(dependencies, k) = Get(Supplied, k)
            /\ \A k \in Keys(dependencies) \ Keys(Supplied) :
                  \E d \in Referred : k = fullPackageName(d) /\ HasKey(dep.availableTypes, d)

====
